---------------------------- MODULE Spec2Model ----------------------------
(***************************************************************************)
(* A model of the irrigation advisory services of agri-suite:              *)
(*   - backend/app/routes_irrigation.py : field creation, weather/ET0,     *)
(*     satellite soil moisture, single-event recommendation;               *)
(*   - frontend/backend/main.py         : field creation (PostGIS store);  *)
(*   - app/main.py                      : deficit-over-period advice;      *)
(*   - app/sat.py                       : spectral index aggregation.      *)
(*                                                                         *)
(* Numbers.  Python floats are modelled as exact rationals <<n, d>> in     *)
(* lowest terms (d > 0).  round(x, 1) and the "%.1f" format are modelled   *)
(* as rounding to the nearest tenth, ties to even, of the exact value (a   *)
(* binary float resolves a decimal tie by its representation error; the    *)
(* model resolves it to even).  Optional values are <<>> (None) or <<v>>.  *)
(* Text is a sequence of one-character strings.                            *)
(***************************************************************************)
EXTENDS Integers, Sequences, FiniteSets, TLC

VARIABLES
    irr,            \* compute_irrigation_mm: the last call, its inputs and result
    req,            \* routes_irrigation.get_recommendation: the request in flight
    openweather_key,\* routes_irrigation.OPENWEATHER_KEY is set
    fields,         \* routes_irrigation: rows of public.fields
    pg_fields,      \* frontend/backend: rows of the PostGIS table fields
    field_call,     \* the last create_field call of either service, and its response
    DB_URL,         \* app/main: the database the service is configured with
    app_fields,     \* app/main: rows of the table fields
    advice,         \* app/main.get_advice: the last call and its response
    idx,            \* app/sat.compute_indices: the last call and its result
    sel,            \* app/sat.select_item: the last call and its result
    geom,           \* _close_ring / _centroid_and_area: the last call and its result
    wx_call,        \* fetch_weather_et0: the last call and its result
    reqs,           \* get_recommendation: the requests served concurrently
    schedules,      \* backend/app and frontend/backend: rows of the table schedules
    sched_call      \* the last save_schedule / get_schedule call and its response

vars == <<irr, req, openweather_key, fields, pg_fields, field_call,
          DB_URL, app_fields, advice, idx, sel, geom, wx_call, reqs,
          schedules, sched_call>>

irrVars    == <<irr>>
recVars    == <<req, openweather_key>>
fieldVars  == <<fields, pg_fields, field_call>>
adviceVars == <<DB_URL, app_fields, advice>>
idxVars    == <<idx>>
selVars    == <<sel>>
geomVars   == <<geom>>
wxVars     == <<wx_call>>
concVars   == <<reqs>>
schedVars  == <<schedules, sched_call>>

\* The parts of the state a specification does not use stay at these values.
CallIdle == [pc |-> "idle"]
IrrOff   == irr = CallIdle
IdxOff   == idx = CallIdle
SelOff   == sel = CallIdle
GeomOff  == geom = CallIdle
WxOff    == wx_call = CallIdle
ConcOff  == reqs = <<>>
SchedOff == schedules = <<>> /\ sched_call = CallIdle

-----------------------------------------------------------------------------
(* Optional values *)

None == <<>>
Some(v) == <<v>>
IsNone(o) == o = <<>>
Val(o) == o[1]

-----------------------------------------------------------------------------
(* Exact rational arithmetic standing for float arithmetic *)

Abs(x) == IF x < 0 THEN -x ELSE x

RECURSIVE GCD(_, _)
GCD(a, b) == IF b = 0 THEN a ELSE GCD(b, a % b)

Rat(n, d) ==
    LET s == IF d < 0 THEN -1 ELSE 1
        g == GCD(Abs(n), Abs(d))
    IN  <<(s * n) \div g, (s * d) \div g>>

Int2Rat(i) == <<i, 1>>
RatAdd(a, b) ==
    LET g == GCD(a[2], b[2])
    IN  Rat(a[1] * (b[2] \div g) + b[1] * (a[2] \div g), (a[2] \div g) * b[2])
RatNeg(a) == <<-a[1], a[2]>>
RatSub(a, b) == RatAdd(a, RatNeg(b))
RatMul(a, b) ==
    LET g1 == GCD(Abs(a[1]), b[2])
        g2 == GCD(Abs(b[1]), a[2])
    IN  Rat((a[1] \div g1) * (b[1] \div g2), (a[2] \div g2) * (b[2] \div g1))
RatDiv(a, b) == RatMul(a, IF b[1] < 0 THEN <<-b[2], -b[1]>> ELSE <<b[2], b[1]>>)
RatLt(a, b) == a[1] * b[2] < b[1] * a[2]
RatLe(a, b) == a[1] * b[2] <= b[1] * a[2]
RatGe(a, b) == RatLe(b, a)
RatMax(a, b) == IF RatLt(a, b) THEN b ELSE a
RatAbs(a) == <<Abs(a[1]), a[2]>>
Zero == <<0, 1>>

RECURSIVE RatSum(_)
RatSum(s) == IF s = <<>> THEN Zero ELSE RatAdd(Head(s), RatSum(Tail(s)))

\* The integer nearest to n / d (d > 0), ties to the even one.
RoundHalfEven(n, d) ==
    LET q == n \div d
        r == n - q * d
    IN  IF 2 * r < d THEN q
        ELSE IF 2 * r > d THEN q + 1
        ELSE IF q % 2 = 0 THEN q ELSE q + 1

\* round(x, 1)
Round1(x) == Rat(RoundHalfEven(10 * x[1], x[2]), 10)

-----------------------------------------------------------------------------
(* Text: str.lower() and str.strip() *)

Upper == <<"A","B","C","D","E","G","H","I","K","M","N","O","P","R","T","W","Y","Z">>
Lower == <<"a","b","c","d","e","g","h","i","k","m","n","o","p","r","t","w","y","z">>
Whitespace == {" ", "\t", "\n"}

LowerChar(c) ==
    IF \E i \in 1..Len(Upper) : Upper[i] = c
    THEN Lower[CHOOSE i \in 1..Len(Upper) : Upper[i] = c]
    ELSE c

StrLower(s) == [i \in 1..Len(s) |-> LowerChar(s[i])]

RECURSIVE LStrip(_)
LStrip(s) == IF s # <<>> /\ Head(s) \in Whitespace THEN LStrip(Tail(s)) ELSE s

RECURSIVE RStrip(_)
RStrip(s) ==
    IF s # <<>> /\ s[Len(s)] \in Whitespace
    THEN RStrip(SubSeq(s, 1, Len(s) - 1))
    ELSE s

StrStrip(s) == LStrip(RStrip(s))

-----------------------------------------------------------------------------
(* routes_irrigation.compute_irrigation_mm *)

\* Lines 114-119: the crop coefficient chosen by the if/elif chain.
CropKc(crop) ==
    LET c == StrStrip(StrLower(IF IsNone(crop) THEN <<>> ELSE Val(crop)))
    IN  IF c \in {<<"r","i","c","e">>, <<"p","a","d","d","y">>} THEN <<11, 10>>
        ELSE IF c \in {<<"c","h","i","c","k","p","e","a">>, <<"g","r","a","m">>}
             THEN <<3, 5>>
        ELSE IF c \in {<<"m","a","i","z","e">>, <<"c","o","r","n">>} THEN <<9, 10>>
        ELSE IF c \in {<<"c","o","t","t","o","n">>} THEN <<1, 1>>
        ELSE <<7, 10>>

\* A variant of SoilAdjust whose first threshold is exclusive.
SoilAdjustStrict(target, soil) ==
    IF ~IsNone(soil)
    THEN IF RatLt(Int2Rat(40), Val(soil)) THEN RatMul(target, <<3, 5>>)
         ELSE IF RatGe(Val(soil), Int2Rat(30)) THEN RatMul(target, <<4, 5>>)
         ELSE target
    ELSE target

\* Lines 122-124: the target scaled by the soil-moisture sufficiency.
SoilAdjust(target, soil) ==
    IF ~IsNone(soil)
    THEN IF RatGe(Val(soil), Int2Rat(40)) THEN RatMul(target, <<3, 5>>)
         ELSE IF RatGe(Val(soil), Int2Rat(30)) THEN RatMul(target, <<4, 5>>)
         ELSE target
    ELSE target

compute_irrigation_mm(crop, temp_c, et0_mm, rain_mm, soil) ==
    LET kc == CropKc(crop)
        target == RatMax(Zero, RatSub(RatMul(kc, et0_mm), rain_mm))
    IN  Round1(SoilAdjust(target, soil))

-----------------------------------------------------------------------------
(* Inputs of the pure computations *)

Str_rice     == <<"r","i","c","e">>
Str_RICE_pad == <<" ","R","I","C","E"," ">>
Str_Paddy    == <<"P","a","d","d","y","\n">>
Str_chickpea == <<"c","h","i","c","k","p","e","a">>
Str_GRAM     == <<"\t","G","R","A","M">>
Str_Maize    == <<"M","a","i","z","e">>
Str_corn     == <<"c","o","r","n"," "," ">>
Str_Cotton   == <<"C","o","t","t","o","n">>
Str_wheat    == <<"w","h","e","a","t">>
Str_ri_ce    == <<"r","i"," ","c","e">>
Str_empty    == <<>>

CropNames == {Str_rice, Str_RICE_pad, Str_Paddy, Str_chickpea, Str_GRAM, Str_Maize,
              Str_corn, Str_Cotton, Str_wheat, Str_ri_ce, Str_empty}
CropInputs == {None} \cup {Some(c) : c \in CropNames}

Et0Inputs  == {Zero, <<1, 2>>, <<5, 4>>, <<13, 5>>, <<5, 1>>, <<25, 4>>}
RainInputs == {Zero, <<1, 4>>, <<1, 1>>, <<7, 1>>}
SoilInputs == {None} \cup {Some(v) : v \in {Zero, <<299, 10>>, <<30, 1>>, <<35, 1>>,
                                             <<399, 10>>, <<40, 1>>, <<45, 1>>}}

IrrIdle == [pc |-> "idle"]

\* A call of compute_irrigation_mm about to be made, with its arguments.
IrrInit ==
    \E crop \in CropInputs, et0 \in Et0Inputs, rain \in RainInputs, soil \in SoilInputs :
        irr = [pc |-> "call", crop |-> crop, et0_mm |-> et0, rain_mm |-> rain,
               soil |-> soil, mm |-> None]

ComputeIrrigation ==
    /\ irr.pc = "call"
    /\ irr' = [irr EXCEPT !.pc = "done",
                          !.mm = Some(compute_irrigation_mm(irr.crop, <<30, 1>>, irr.et0_mm,
                                                            irr.rain_mm, irr.soil))]
    /\ UNCHANGED <<recVars, fieldVars, adviceVars, idxVars,
                 selVars, geomVars, wxVars, concVars, schedVars>>

-----------------------------------------------------------------------------
(* C5 *)

\* The crop coefficient table of the contract, by the name as the caller wrote it.
ContractKc(crop) ==
    IF crop \in {Some(Str_rice), Some(Str_RICE_pad), Some(Str_Paddy)} THEN <<11, 10>>
    ELSE IF crop \in {Some(Str_chickpea), Some(Str_GRAM)} THEN <<6, 10>>
    ELSE IF crop \in {Some(Str_Maize), Some(Str_corn)} THEN <<9, 10>>
    ELSE IF crop = Some(Str_Cotton) THEN <<10, 10>>
    ELSE <<7, 10>>

\* The soil-moisture sufficiency factor of the contract, in tenths.
ContractSoilFactor(soil) ==
    CASE IsNone(soil) -> 10
      [] ~IsNone(soil) /\ Val(soil)[1] >= 40 * Val(soil)[2] -> 6
      [] ~IsNone(soil) /\ Val(soil)[1] >= 30 * Val(soil)[2]
                       /\ Val(soil)[1] < 40 * Val(soil)[2] -> 8
      [] OTHER -> 10

\* C5: the single-event recommendation is the one-decimal rounding of
\* max(0, kc(crop) * et0 - rain) * f(soil), kc from the table on the lower-cased,
\* trimmed crop name (default 0.7), f = 0.6 / 0.8 / 1 for soil >= 40 / >= 30 / else or None.
C5_SingleEventFormula ==
    irr.pc = "done" =>
        LET kc == ContractKc(irr.crop)
            \* hundredths of a millimetre: kc (tenths) * et0 - rain
            base == kc[1] * irr.et0_mm[1] * irr.rain_mm[2]
                      - 10 * irr.rain_mm[1] * irr.et0_mm[2]
            den  == 10 * irr.et0_mm[2] * irr.rain_mm[2]
            pos  == IF base < 0 THEN 0 ELSE base
        IN  10 * Val(irr.mm)[1] =
               Val(irr.mm)[2] * RoundHalfEven(pos * ContractSoilFactor(irr.soil), den)

\* C5 witness: rice, et0 5, rain 0, soil 45 gives 3.3.
C5_Witness ==
    /\ irr.pc = "done"
    /\ irr.crop = Some(Str_rice)
    /\ irr.et0_mm = <<5, 1>>
    /\ irr.rain_mm = Zero
    /\ irr.soil = Some(<<45, 1>>)
    /\ irr.mm = Some(<<33, 10>>)

-----------------------------------------------------------------------------
(* routes_irrigation: geometry helpers *)

\* A variant of _close_ring that appends the first position always.
_close_ring_always(coords) ==
    IF coords # <<>> THEN coords \o <<coords[1]>> ELSE coords

\* _close_ring, lines 39-42.
_close_ring(coords) ==
    IF coords # <<>> /\ coords[1] # coords[Len(coords)]
    THEN coords \o <<coords[1]>>
    ELSE coords

\* An area of half_a2 square degrees around latitude lat0, in units of per_m2
\* square metres: |A2| / 2 / per_m2 with A2 = a2 * m_per_deg_lon * m_per_deg_lat.
\* The product 111320 * cos(radians(lat0)) * 111132 is kept as its factors: it
\* exceeds the integers TLC computes with.
AreaOf(half_a2, lat0, per_m2) ==
    [deg2 |-> half_a2,
     m_per_deg_lat |-> 111132,
     m_per_deg_lon |-> [k |-> 111320, cos_of_deg |-> lat0],
     per_m2 |-> per_m2]

\* A variant of CentroidOffset that divides by 3 when the accumulator is zero.
CentroidOffsetUnguarded(C, A2) ==
    IF A2 # Zero THEN RatDiv(C, RatMul(Int2Rat(3), A2)) ELSE RatDiv(RatAdd(C, Int2Rat(3)), Int2Rat(3))

\* Lines 64-65: the offset of the centroid from the projection origin.
CentroidOffset(C, A2) ==
    IF A2 # Zero THEN RatDiv(C, RatMul(Int2Rat(3), A2)) ELSE Zero

\* _centroid_and_area, lines 44-71.  xy are the offsets from the projection
\* origin in degrees; the local metres of line 53 are these times the two
\* per-degree factors, which are positive and cancel in lines 64-68.
_centroid_and_area(positions) ==
    LET n    == Len(positions)
        lats == [i \in 1..n |-> positions[i][2]]
        lons == [i \in 1..n |-> positions[i][1]]
        lat0 == RatDiv(RatSum(lats), Int2Rat(n))
        lon0 == RatDiv(RatSum(lons), Int2Rat(n))
        xy   == [i \in 1..n |-> <<RatSub(lons[i], lon0), RatSub(lats[i], lat0)>>]
        cross(i) == RatSub(RatMul(xy[i][1], xy[i + 1][2]), RatMul(xy[i + 1][1], xy[i][2]))
        A2   == RatSum([i \in 1..(n - 1) |-> cross(i)])
        Cx   == RatSum([i \in 1..(n - 1) |->
                          RatMul(RatAdd(xy[i][1], xy[i + 1][1]), cross(i))])
        Cy   == RatSum([i \in 1..(n - 1) |->
                          RatMul(RatAdd(xy[i][2], xy[i + 1][2]), cross(i))])
        A    == RatDiv(RatAbs(A2), Int2Rat(2))
        cx   == CentroidOffset(Cx, A2)
        cy   == CentroidOffset(Cy, A2)
    IN  [centroid_lat |-> RatAdd(lat0, cy),
         centroid_lon |-> RatAdd(lon0, cx),
         area_ha |-> AreaOf(A, lat0, "10000"),
         area_ac |-> AreaOf(A, lat0, "4046.8564224")]


-----------------------------------------------------------------------------
(* Field creation: routes_irrigation.create_field and frontend/backend create_field *)

Pt(lon, lat) == <<Int2Rat(lon), Int2Rat(lat)>>

Ring_empty     == <<>>
Ring_one       == <<Pt(1, 1)>>
Ring_two       == <<Pt(0, 0), Pt(2, 0)>>
Ring_two_same  == <<Pt(1, 1), Pt(1, 1)>>
Ring_tri_open  == <<Pt(0, 0), Pt(2, 0), Pt(0, 2)>>
Ring_tri       == <<Pt(0, 0), Pt(2, 0), Pt(0, 2), Pt(0, 0)>>
Ring_sq_open   == <<Pt(0, 0), Pt(2, 0), Pt(2, 2), Pt(0, 2)>>
Ring_sq_cw     == <<Pt(0, 0), Pt(0, 2), Pt(2, 2), Pt(2, 0), Pt(0, 0)>>
Ring_line      == <<Pt(0, 0), Pt(1, 1), Pt(2, 2)>>
Ring_point     == <<Pt(1, 1), Pt(1, 1), Pt(1, 1)>>
Ring_back      == <<Pt(0, 0), Pt(2, 0), Pt(0, 0)>>

Rings == {Ring_empty, Ring_one, Ring_two, Ring_two_same, Ring_tri_open, Ring_tri,
          Ring_sq_open, Ring_sq_cw, Ring_line, Ring_point, Ring_back}

\* A GeoJSON geometry: its "type" and its "coordinates" (a list of rings), each
\* possibly missing.
Polygon(coordinates) == [type |-> Some("Polygon"), coordinates |-> coordinates]

Geometries ==
    {[type |-> None, coordinates |-> Some(<<Ring_tri>>)],
     [type |-> Some("Point"), coordinates |-> Some(<<Ring_tri>>)],
     [type |-> Some("Point"), coordinates |-> Some(<<Ring_two>>)],
     Polygon(None), Polygon(Some(<<>>))}
    \cup {Polygon(Some(<<r>>)) : r \in Rings}

\* The request bodies of routes_irrigation.create_field: the geometry under
\* "geometry" with a crop, no geometry at all, or the GeoJSON itself (the branch
\* of lines 145-146, which leaves the crop unset).
FieldBodies ==
    {[raw |-> FALSE, geometry |-> None, crop |-> Some(Str_Maize)]}
    \cup {[raw |-> FALSE, geometry |-> Some(g), crop |-> Some(Str_Maize)] : g \in Geometries}
    \cup {[raw |-> TRUE, geometry |-> Some(Polygon(Some(<<r>>))), crop |-> None] :
            r \in {Ring_two, Ring_sq_open}}

MaxFields == 2

FieldCallIdle == [pc |-> "idle"]

FieldInit ==
    /\ fields = <<>>
    /\ pg_fields = <<>>
    /\ field_call = FieldCallIdle

\* Lines 152-159: the first validation that rejects the geometry, or "ok".
ValidateGeometry(geometry) ==
    IF IsNone(geometry) \/ IsNone(Val(geometry).type) \/ IsNone(Val(geometry).coordinates)
    THEN "no_geometry"
    ELSE IF Val(geometry).type # Some("Polygon") THEN "not_polygon"
    ELSE LET rings == Val(Val(geometry).coordinates)
         IN  IF rings = <<>> \/ Len(rings[1]) < 3 THEN "too_few" ELSE "ok"

\* Lines 161-182: the row inserted for a validated outer ring.
FieldRow(id, crop, ring) ==
    LET outer == _close_ring(ring)
        m     == _centroid_and_area(outer)
    IN  [id |-> id, crop |-> crop, geometry |-> outer,
         centroid_lat |-> m.centroid_lat, centroid_lon |-> m.centroid_lon,
         area_ha |-> m.area_ha, area_ac |-> m.area_ac]

\* routes_irrigation.create_field, lines 132-193.  A raw body with both keys is
\* the geometry itself (lines 145-146); the model's raw bodies always are.
create_field(body) ==
    LET geometry == body.geometry
        crop     == IF body.raw THEN None ELSE body.crop
        verdict  == ValidateGeometry(geometry)
    IN  IF verdict # "ok"
        THEN /\ field_call' = [pc |-> "done", svc |-> "routes_irrigation",
                               geometry |-> geometry, status |-> 422,
                               detail |-> verdict, close_ring_ran |-> FALSE,
                               measured |-> FALSE, db_calls |-> 0]
             /\ UNCHANGED fields
        ELSE LET row == FieldRow(Len(fields) + 1, crop, Val(Val(geometry).coordinates)[1])
             IN  /\ fields' = Append(fields, row)
                 /\ field_call' = [pc |-> "done", svc |-> "routes_irrigation",
                                   geometry |-> geometry, status |-> 200,
                                   detail |-> "created", close_ring_ran |-> TRUE,
                                   measured |-> TRUE, db_calls |-> 1]

CreateField ==
    /\ Len(fields) + Len(pg_fields) < MaxFields
    /\ \E body \in FieldBodies : create_field(body)
    /\ UNCHANGED <<pg_fields, irrVars, recVars, adviceVars, idxVars,
                 selVars, geomVars, wxVars, concVars, schedVars>>


\* The payloads of frontend/backend create_field: farm_id and name present or
\* not, and boundary_geojson.
FrontendPayloads ==
    [ids : {TRUE}, boundary_geojson : {None} \cup {Some(g) : g \in Geometries}]
    \cup {[ids |-> FALSE, boundary_geojson |-> Some(Polygon(Some(<<Ring_tri>>)))]}

\* frontend/backend create_field, lines 35-37: the ring closed in place; None
\* when coords[0] raises IndexError (caught at line 40).
frontend_close_ring(coords) ==
    IF coords = <<>> THEN None
    ELSE IF coords[1] # coords[Len(coords)] THEN Some(Append(coords, coords[1]))
    ELSE Some(coords)

\* frontend/backend create_field, lines 26-57.  PostGIS decides whether a ring
\* of fewer than four positions is a polygon; its answer is not in the source and
\* is either one here.  area_ha is derived by the database from the stored boundary.
frontend_create_field(payload) ==
    LET gj == payload.boundary_geojson
        call(status, detail, closed, db_calls) ==
            [pc |-> "done", svc |-> "frontend", geometry |-> gj, status |-> status,
             detail |-> detail, close_ring_ran |-> closed, measured |-> FALSE,
             db_calls |-> db_calls]
    IN  IF ~payload.ids \/ IsNone(gj) \/ Val(gj).type # Some("Polygon")
        THEN /\ field_call' = call(400, "required", FALSE, 0)
             /\ UNCHANGED pg_fields
        ELSE IF IsNone(Val(gj).coordinates) \/ Val(Val(gj).coordinates) = <<>>
                  \/ Val(Val(gj).coordinates)[1] = <<>>
        THEN /\ field_call' = call(400, "invalid", FALSE, 0)
             /\ UNCHANGED pg_fields
        ELSE LET ring   == Val(Val(gj).coordinates)[1]
                 coords == Val(frontend_close_ring(ring))
                 row    == [id |-> Len(pg_fields) + 1, boundary |-> coords,
                            area_ha |-> [st_area_of |-> coords]]
             IN  \E accepted \in (IF Len(coords) < 4 THEN {TRUE, FALSE} ELSE {TRUE}) :
                    IF accepted
                    THEN /\ pg_fields' = Append(pg_fields, row)
                         /\ field_call' = call(200, "created", TRUE, 1)
                    ELSE /\ field_call' = call(500, "database", TRUE, 1)
                         /\ UNCHANGED pg_fields

FrontendCreateField ==
    /\ Len(fields) + Len(pg_fields) < MaxFields
    /\ \E payload \in FrontendPayloads : frontend_create_field(payload)
    /\ UNCHANGED <<fields, irrVars, recVars, adviceVars, idxVars,
                 selVars, geomVars, wxVars, concVars, schedVars>>


-----------------------------------------------------------------------------
(* routes_irrigation: weather, satellite soil moisture, get_recommendation *)

ForecastWindow == 8
MaxSteps == 2

Min(a, b) == IF a < b THEN a ELSE b

\* fetch_weather_et0, lines 84-89, on the "list" of the forecast body.
WeatherSnapshot(list) ==
    LET steps  == SubSeq(list, 1, Min(Len(list), ForecastWindow))
        temps  == [i \in 1..Len(steps) |-> steps[i].temp]
        rain   == RatSum([i \in 1..Len(steps) |->
                            IF IsNone(steps[i].rain) THEN Zero ELSE Val(steps[i].rain)])
        temp_c == IF temps # <<>>
                  THEN Round1(RatDiv(RatSum(temps), Int2Rat(Len(temps))))
                  ELSE <<30, 1>>
        et0_mm == Round1(RatMul(RatMax(Zero, RatMul(<<23, 10000>>,
                                                    RatAdd(temp_c, <<178, 10>>))),
                                <<24, 1>>))
    IN  [temp_c |-> temp_c, rainfall_forecast_mm |-> Round1(rain), et0_mm |-> et0_mm]

\* fetch_weather_et0, lines 73-89: raises when the key is missing (74-75), when
\* the request fails or times out (81) and on an error status (82).
fetch_weather_et0(key_set, resp) ==
    IF ~key_set THEN [raised |-> TRUE, why |-> "no_key", wx |-> None]
    ELSE IF resp.kind # "ok" THEN [raised |-> TRUE, why |-> resp.kind, wx |-> None]
    ELSE [raised |-> FALSE, why |-> "",
          wx |-> Some(WeatherSnapshot(IF IsNone(resp.list) THEN <<>> ELSE Val(resp.list)))]

\* fetch_satellite_soil_moisture, lines 91-111: None on a status other than 200
\* (100-101), on any exception (110-111: request error, time-out, missing keys)
\* and on a value outside 0..60 (107-108).
fetch_satellite_soil_moisture(resp) ==
    IF resp.kind # "ok" THEN None
    ELSE IF IsNone(resp.value) THEN None
    ELSE LET sm_pct == Round1(RatDiv(Val(resp.value), Int2Rat(10)))
         IN  IF RatLt(sm_pct, Zero) \/ RatLt(Int2Rat(60), sm_pct) THEN None
             ELSE Some(sm_pct)

\* What the forecast source can answer: a failed or timed-out request, an error
\* status, or a body whose "list" is missing or holds up to MaxSteps steps.
ForecastSteps ==
    {[temp |-> <<2013, 100>>, rain |-> None],
     [temp |-> <<3146, 100>>, rain |-> Some(<<13, 50>>)],
     [temp |-> <<-20, 1>>,    rain |-> Some(<<119, 100>>)]}

ForecastLists == UNION {[1..n -> ForecastSteps] : n \in 0..MaxSteps}

ForecastResponses ==
    {[kind |-> "error", list |-> None], [kind |-> "status", list |-> None],
     [kind |-> "ok", list |-> None]}
    \cup {[kind |-> "ok", list |-> Some(l)] : l \in ForecastLists}

\* What the soil-moisture source can answer: a failed or timed-out request, a
\* status other than 200, a body without the value, or a value in kg/m2.
SoilResponses ==
    {[kind |-> "error", value |-> None], [kind |-> "status", value |-> None],
     [kind |-> "ok", value |-> None]}
    \cup {[kind |-> "ok", value |-> Some(v)] :
            v \in {<<-999, 1>>, <<1234, 10>>, <<350, 1>>, <<450, 1>>, <<605, 1>>}}

ManualSoil == {None, Some(Zero), Some(<<35, 1>>), Some(<<45, 1>>)}

\* The rows get_recommendation can read, created earlier by create_field.
StoredFields ==
    <<FieldRow(1, Some(Str_Maize), Ring_tri_open),
      FieldRow(2, Some(Str_RICE_pad), Ring_sq_cw),
      FieldRow(3, None, Ring_tri)>>

RequestedIds == {1, 2, 3, 4}

ReqIdle ==
    [pc |-> "idle", field_id |-> 0, manual |-> None, crop |-> None,
     forecast |-> None, soil_resp |-> None, sat_called |-> FALSE,
     wx |-> None, sm |-> None, out |-> [kind |-> "none"]]

RecInit ==
    /\ req = ReqIdle
    /\ openweather_key \in BOOLEAN
    /\ fields = StoredFields

HttpError(status) == [kind |-> "error", status |-> status]

\* get_recommendation, lines 214-219.
Respond(crop, wx, sm) ==
    IF IsNone(sm)
    THEN [kind |-> "processing", status |-> 202, eta_minutes |-> 2]
    ELSE [kind |-> "recommendation", status |-> 200,
          recommendation_mm |->
              compute_irrigation_mm(crop, wx.temp_c, wx.et0_mm,
                                    wx.rainfall_forecast_mm, sm),
          window_days |-> 3,
          inputs |-> [crop |-> crop, soil_moisture_pct |-> sm, temp_c |-> wx.temp_c,
                      rainfall_forecast_mm |-> wx.rainfall_forecast_mm,
                      et0_mm |-> wx.et0_mm]]

\* get_recommendation, lines 200-211, up to the forecast request being sent:
\* the request r after these lines, for the rows of the table and the key.
begin_recommendation(r, rows_of_table, key_set, field_id, manual) ==
    LET rows == SelectSeq(rows_of_table, LAMBDA f : f.id = field_id)
        r0   == [r EXCEPT !.field_id = field_id, !.manual = manual]
    IN  IF rows = <<>>
        THEN [r0 EXCEPT !.pc = "done", !.out = HttpError(404)]
        ELSE IF ~key_set   \* lines 74-75, before any request is sent
        THEN [r0 EXCEPT !.pc = "done", !.crop = rows[1].crop, !.out = HttpError(500)]
        ELSE [r0 EXCEPT !.pc = "weather", !.crop = rows[1].crop]

\* Lines 211-219 once the forecast request returns: with a manual value the
\* handler runs to its end, without one it sends the soil-moisture request.
weather_returns(r, key_set, resp) ==
    LET w  == fetch_weather_et0(key_set, resp)
        r0 == [r EXCEPT !.forecast = Some(resp)]
    IN  IF w.raised
        THEN [r0 EXCEPT !.pc = "done", !.out = HttpError(500)]
        ELSE IF ~IsNone(r.manual)
        THEN [r0 EXCEPT !.pc = "done", !.wx = w.wx, !.sm = r.manual,
                        !.out = Respond(r.crop, Val(w.wx), r.manual)]
        ELSE [r0 EXCEPT !.pc = "soil", !.wx = w.wx, !.sat_called = TRUE]

\* Lines 212-219 once the soil-moisture request returns.
soil_returns(r, resp) ==
    LET sm == fetch_satellite_soil_moisture(resp)
    IN  [r EXCEPT !.pc = "done", !.soil_resp = Some(resp), !.sm = sm,
                  !.out = Respond(r.crop, Val(r.wx), sm)]

BeginRecommendation ==
    /\ req.pc = "idle"
    /\ \E field_id \in RequestedIds, manual \in ManualSoil :
          req' = begin_recommendation(req, fields, openweather_key, field_id, manual)
    /\ UNCHANGED <<openweather_key, fieldVars, irrVars, adviceVars, idxVars,
                 selVars, geomVars, wxVars, concVars, schedVars>>

WeatherReturns ==
    /\ req.pc = "weather"
    /\ \E resp \in ForecastResponses : req' = weather_returns(req, openweather_key, resp)
    /\ UNCHANGED <<openweather_key, fieldVars, irrVars, adviceVars, idxVars,
                 selVars, geomVars, wxVars, concVars, schedVars>>

SoilReturns ==
    /\ req.pc = "soil"
    /\ \E resp \in SoilResponses : req' = soil_returns(req, resp)
    /\ UNCHANGED <<openweather_key, fieldVars, irrVars, adviceVars, idxVars,
                 selVars, geomVars, wxVars, concVars, schedVars>>

\* The next request arrives.
NextRequest ==
    /\ req.pc = "done"
    /\ req' = ReqIdle
    /\ UNCHANGED <<openweather_key, fieldVars, irrVars, adviceVars, idxVars,
                 selVars, geomVars, wxVars, concVars, schedVars>>


-----------------------------------------------------------------------------
(* app/main.py: the field table and get_advice *)

SecondsPerDay == 86400

\* The largest k with k * k <= v, searched between lo and hi.
RECURSIVE ISqrtIn(_, _, _)
ISqrtIn(v, lo, hi) ==
    IF lo >= hi THEN lo
    ELSE LET mid == (lo + hi + 1) \div 2
         IN  IF mid * mid <= v THEN ISqrtIn(v, mid, hi) ELSE ISqrtIn(v, lo, mid - 1)

\* math.sqrt of a whole number, to three decimals (truncated).
Sqrt3(x) == Rat(ISqrtIn(x * 1000000, 0, 46000), 1000)

\* One piece of a formatted message: literal text, or a number written with
\* one decimal ("{:.1f}").
Lit(text) == [lit |-> text, num |-> None]
Fmt1(x) == [lit |-> "{:.1f}", num |-> Some(Round1(x))]

\* A variant of advice_messages whose first threshold is 12.
advice_messages_12(net_deficit) ==
    IF RatLt(net_deficit, Int2Rat(12))
    THEN <<[en |-> <<Lit("Conditions are normal. Monitor the next forecast.")>>,
            ur |-> <<Lit("(ur) Conditions are normal. Monitor the next forecast.")>>]>>
    ELSE IF RatLt(net_deficit, Int2Rat(25))
    THEN <<[en |-> <<Lit("Field is drying (deficit ~ "), Fmt1(net_deficit),
                     Lit(" mm). Plan irrigation within 1-2 days.")>>,
            ur |-> <<Lit("(ur) Field is drying (deficit ~ "), Fmt1(net_deficit),
                     Lit(" mm). Irrigate within 1-2 days.")>>]>>
    ELSE <<[en |-> <<Lit("Deficit high (~ "), Fmt1(net_deficit),
                     Lit(" mm). Irrigate now if field is available.")>>,
            ur |-> <<Lit("(ur) Deficit high (~ "), Fmt1(net_deficit),
                     Lit(" mm). Irrigate now if possible.")>>]>>

\* A variant of advice_messages whose second threshold is 20.
advice_messages_20(net_deficit) ==
    IF RatLt(net_deficit, Int2Rat(10))
    THEN <<[en |-> <<Lit("Conditions are normal. Monitor the next forecast.")>>,
            ur |-> <<Lit("(ur) Conditions are normal. Monitor the next forecast.")>>]>>
    ELSE IF RatLt(net_deficit, Int2Rat(20))
    THEN <<[en |-> <<Lit("Field is drying (deficit ~ "), Fmt1(net_deficit),
                     Lit(" mm). Plan irrigation within 1-2 days.")>>,
            ur |-> <<Lit("(ur) Field is drying (deficit ~ "), Fmt1(net_deficit),
                     Lit(" mm). Irrigate within 1-2 days.")>>]>>
    ELSE <<[en |-> <<Lit("Deficit high (~ "), Fmt1(net_deficit),
                     Lit(" mm). Irrigate now if field is available.")>>,
            ur |-> <<Lit("(ur) Deficit high (~ "), Fmt1(net_deficit),
                     Lit(" mm). Irrigate now if possible.")>>]>>

\* get_advice, lines 186-207: the English and Urdu messages (the Urdu text is
\* written here by its English rendering, marked "(ur)").
advice_messages(net_deficit) ==
    IF RatLt(net_deficit, Int2Rat(10))
    THEN <<[en |-> <<Lit("Conditions are normal. Monitor the next forecast.")>>,
            ur |-> <<Lit("(ur) Conditions are normal. Monitor the next forecast.")>>]>>
    ELSE IF RatLt(net_deficit, Int2Rat(25))
    THEN <<[en |-> <<Lit("Field is drying (deficit ~ "), Fmt1(net_deficit),
                     Lit(" mm). Plan irrigation within 1-2 days.")>>,
            ur |-> <<Lit("(ur) Field is drying (deficit ~ "), Fmt1(net_deficit),
                     Lit(" mm). Irrigate within 1-2 days.")>>]>>
    ELSE <<[en |-> <<Lit("Deficit high (~ "), Fmt1(net_deficit),
                     Lit(" mm). Irrigate now if field is available.")>>,
            ur |-> <<Lit("(ur) Deficit high (~ "), Fmt1(net_deficit),
                     Lit(" mm). Irrigate now if possible.")>>]>>

\* get_advice, lines 175-179; times are seconds on the UTC clock.
days_since_irrigation(last_irrigation_ts, now) ==
    IF ~IsNone(last_irrigation_ts)
    THEN LET whole == (now - Val(last_irrigation_ts)) \div SecondsPerDay
         IN  IF whole < 0 THEN 0 ELSE whole
    ELSE 3

\* get_advice, lines 164-224, for the row rec read at time now.
AdviceFor(rec, now) ==
    LET tmin  == <<22, 1>>
        tmax  == <<34, 1>>
        tmean == RatDiv(RatAdd(tmin, tmax), Int2Rat(2))
        td    == RatMax(<<1, 10>>, RatSub(tmax, tmin))
        et0   == RatMul(RatMul(RatMul(<<23, 10000>>, RatAdd(tmean, Int2Rat(17))),
                               Sqrt3(td[1] \div td[2])),
                        Int2Rat(10))
        rain_mm    == <<1, 1>>
        delta_days == days_since_irrigation(rec.last_irrigation_ts, now)
        kc         == <<9, 10>>
        daily_use  == RatMul(et0, kc)
        net_deficit == RatMax(Zero, RatSub(RatMul(daily_use, Int2Rat(delta_days)), rain_mm))
    IN  [field |-> rec.name, crop |-> rec.crop,
         today |-> [tmin_c |-> tmin, tmax_c |-> tmax, rain_mm |-> rain_mm,
                    rain_prob_pct |-> 30, et0_mm |-> Round1(et0)],
         since_last_irrigation_days |-> delta_days,
         net_deficit_mm |-> Round1(net_deficit),
         messages |-> advice_messages(net_deficit),
         \* not part of the response: the values the handler computed on the way
         et0 |-> et0, rain |-> rain_mm, net_deficit |-> net_deficit]

MaxAppFields == 1

IrrigationTimes == {None, Some(0), Some(5 * SecondsPerDay), Some(20 * SecondsPerDay)}
ClockTimes == {SecondsPerDay - 1, SecondsPerDay, 4 * SecondsPerDay + 1,
               8 * SecondsPerDay + 86399, 9 * SecondsPerDay, 14 * SecondsPerDay}
AppCrops == {Str_wheat, Str_Maize, Str_RICE_pad}

AdviceIdle == [pc |-> "idle"]

\* DATABASE_URL, line 19: unset (the local SQLite file) or a PostgreSQL server.
DatabaseUrls == {"sqlite", "postgresql"}

AdviceInit ==
    /\ DB_URL \in DatabaseUrls
    /\ app_fields = <<>>
    /\ advice = AdviceIdle

AdviceOff ==
    /\ DB_URL = "sqlite"
    /\ app_fields = <<>>
    /\ advice = AdviceIdle

\* app/main.create_field, lines 132-145, for a payload FieldCreate accepts
\* (name and crop are stripped by its validator, lines 60-65).
app_create_field(payload) ==
    app_fields' = Append(app_fields,
        [id |-> Len(app_fields) + 1,
         name |-> StrStrip(payload.name), crop |-> StrStrip(payload.crop),
         centroid_lat |-> payload.centroid_lat, centroid_lon |-> payload.centroid_lon,
         polygon_geojson |-> payload.polygon_geojson,
         last_irrigation_ts |-> payload.last_irrigation_ts])

AppCreateField ==
    /\ Len(app_fields) < MaxAppFields
    /\ \E crop \in AppCrops, ts \in IrrigationTimes :
          app_create_field([name |-> <<"F">>, crop |-> crop,
                            centroid_lat |-> Int2Rat(1), centroid_lon |-> Int2Rat(1),
                            polygon_geojson |-> None, last_irrigation_ts |-> ts])
    /\ UNCHANGED <<DB_URL, advice, irrVars, recVars, fieldVars, idxVars,
                 selVars, geomVars, wxVars, concVars, schedVars>>

\* The column last_irrigation_ts (line 45) as a query returns it: SQLite keeps
\* no UTC offset, so the datetime read back is naive; PostgreSQL returns it aware.
TimestampIsAware == DB_URL = "postgresql"

\* app/main.get_advice, lines 154-224.  Line 177 subtracts the stored timestamp
\* from an aware datetime, which raises TypeError for a naive one.
get_advice(field_id, now) ==
    LET rows == SelectSeq(app_fields, LAMBDA f : f.id = field_id)
    IN  IF rows = <<>>
        THEN advice' = [pc |-> "done", field_id |-> field_id, now |-> now,
                        status |-> 404, rec |-> None, body |-> None]
        ELSE IF ~IsNone(rows[1].last_irrigation_ts) /\ ~TimestampIsAware
        THEN advice' = [pc |-> "done", field_id |-> field_id, now |-> now,
                        status |-> 500, rec |-> Some(rows[1]), body |-> None]
        ELSE advice' = [pc |-> "done", field_id |-> field_id, now |-> now,
                        status |-> 200, rec |-> Some(rows[1]),
                        body |-> Some(AdviceFor(rows[1], now))]

GetAdvice ==
    /\ \E field_id \in 1..(MaxAppFields + 1), now \in ClockTimes : get_advice(field_id, now)
    /\ UNCHANGED <<DB_URL, app_fields, irrVars, recVars, fieldVars, idxVars,
                 selVars, geomVars, wxVars, concVars, schedVars>>


-----------------------------------------------------------------------------
(* app/sat.py: compute_indices *)

\* Index values are float32 ratios in [-1, 1]; the model keeps them in
\* millionths.  A band value is None where the raster is masked (nodata, NaN).

SCL_MASK == {3, 8, 9, 10}

EpsInv == 1000000   \* the 1e-6 of lines 80 and 82, as its inverse

RECURSIVE Pow10(_)
Pow10(k) == IF k = 0 THEN 1 ELSE 10 * Pow10(k - 1)

\* The first k decimals of r / d, for 0 <= r < d.
RECURSIVE Decimals(_, _, _)
Decimals(r, d, k) ==
    IF k = 0 THEN 0
    ELSE ((10 * r) \div d) * Pow10(k - 1) + Decimals((10 * r) % d, d, k - 1)

\* (a - b) / (a + b + 1e-6) in millionths, lines 80 and 82.
NormDiff(a, b) ==
    LET diff == a - b
        den  == (a + b) * EpsInv + 1
        num  == Abs(diff) * EpsInv
        mag  == (num \div den) * Pow10(6) + Decimals(num % den, den, 6)
    IN  IF diff < 0 THEN -mag ELSE mag

RECURSIVE SumSeq(_)
SumSeq(s) == IF s = <<>> THEN 0 ELSE Head(s) + SumSeq(Tail(s))

\* A variant of _nanmean that answers 0 for an array with no finite value.
_nanmean_zero(a) ==
    LET finite == SelectSeq(a, LAMBDA v : ~IsNone(v))
    IN  IF finite = <<>> THEN Some(0)
        ELSE Some(RoundHalfEven(SumSeq([i \in 1..Len(finite) |-> Val(finite[i])]),
                                Len(finite)))

\* _nanmean, lines 84-86: the mean of the values that are not NaN, None when
\* there is none (np.nanmean of all-NaN is NaN).
_nanmean(a) ==
    LET finite == SelectSeq(a, LAMBDA v : ~IsNone(v))
    IN  IF finite = <<>> THEN None
        ELSE Some(RoundHalfEven(SumSeq([i \in 1..Len(finite) |-> Val(finite[i])]),
                                Len(finite)))

\* compute_indices, lines 73-91, on the clipped pixels of the four bands.
compute_indices(item, pixels) ==
    LET n == Len(pixels)
        cloud_mask == [i \in 1..n |-> pixels[i].scl \in SCL_MASK]
        red  == [i \in 1..n |-> IF cloud_mask[i] THEN None ELSE pixels[i].red]
        nir  == [i \in 1..n |-> IF cloud_mask[i] THEN None ELSE pixels[i].nir]
        swir == [i \in 1..n |-> IF cloud_mask[i] THEN None ELSE pixels[i].swir]
        ndvi == [i \in 1..n |-> IF IsNone(nir[i]) \/ IsNone(red[i]) THEN None
                                ELSE Some(NormDiff(Val(nir[i]), Val(red[i])))]
        ndwi == [i \in 1..n |-> IF IsNone(nir[i]) \/ IsNone(swir[i]) THEN None
                                ELSE Some(NormDiff(Val(nir[i]), Val(swir[i])))]
    IN  [ndvi_mean |-> _nanmean(ndvi), ndwi_mean |-> _nanmean(ndwi),
         cloud_pct |-> item.cloud_cover, item_id |-> item.id]

MaxPixels == 3

Pixels ==
    {[red |-> Some(1), nir |-> Some(3), swir |-> Some(1), scl |-> 4],
     [red |-> Some(0), nir |-> Some(0), swir |-> Some(0), scl |-> 5],
     [red |-> Some(3), nir |-> Some(1), swir |-> None,    scl |-> 4],
     [red |-> None,    nir |-> Some(3), swir |-> Some(2), scl |-> 6],
     [red |-> Some(1), nir |-> Some(3), swir |-> Some(1), scl |-> 3],
     [red |-> Some(2), nir |-> Some(2), swir |-> Some(3), scl |-> 8],
     [red |-> Some(3), nir |-> Some(0), swir |-> Some(1), scl |-> 9],
     [red |-> Some(0), nir |-> Some(3), swir |-> Some(0), scl |-> 10]}

Items == {[id |-> "S2A_1", cloud_cover |-> <<25, 2>>],
          [id |-> "S2B_2", cloud_cover |-> <<39, 1>>]}

IdxIdle == [pc |-> "idle"]

\* A call of compute_indices about to be made, with the item and the clipped pixels.
IdxInit ==
    \E item \in Items, pixels \in UNION {[1..n -> Pixels] : n \in 0..MaxPixels} :
        idx = [pc |-> "call", item |-> item, pixels |-> pixels, out |-> None]

ComputeIndices ==
    /\ idx.pc = "call"
    /\ idx' = [idx EXCEPT !.pc = "done",
                          !.out = Some(compute_indices(idx.item, idx.pixels))]
    /\ UNCHANGED <<irrVars, recVars, fieldVars, adviceVars,
                 selVars, geomVars, wxVars, concVars, schedVars>>

-----------------------------------------------------------------------------
(* Specifications, one per service *)

\* compute_irrigation_mm applied to every input of the bounded sets.
InitIrr ==
    /\ IrrInit
    /\ req = ReqIdle /\ openweather_key = TRUE
    /\ FieldInit /\ AdviceOff /\ idx = IdxIdle
    /\ SelOff /\ GeomOff /\ WxOff /\ ConcOff /\ SchedOff
NextIrr == ComputeIrrigation
SpecIrr == InitIrr /\ [][NextIrr]_vars

\* routes_irrigation.get_recommendation, one request after the other.
InitRec ==
    /\ RecInit
    /\ irr = IrrIdle /\ pg_fields = <<>> /\ field_call = FieldCallIdle
    /\ AdviceOff /\ idx = IdxIdle
    /\ SelOff /\ GeomOff /\ WxOff /\ ConcOff /\ SchedOff
NextRec == BeginRecommendation \/ WeatherReturns \/ SoilReturns \/ NextRequest
SpecRec == InitRec /\ [][NextRec]_vars

\* Field creation of routes_irrigation and of frontend/backend.
InitField ==
    /\ FieldInit
    /\ irr = IrrIdle /\ req = ReqIdle /\ openweather_key = TRUE
    /\ AdviceOff /\ idx = IdxIdle
    /\ SelOff /\ GeomOff /\ WxOff /\ ConcOff /\ SchedOff
NextField == CreateField \/ FrontendCreateField
SpecField == InitField /\ [][NextField]_vars

\* app/main: field creation and advice.
InitAdvice ==
    /\ AdviceInit
    /\ irr = IrrIdle /\ req = ReqIdle /\ openweather_key = TRUE
    /\ FieldInit /\ idx = IdxIdle
    /\ SelOff /\ GeomOff /\ WxOff /\ ConcOff /\ SchedOff
NextAdvice == AppCreateField \/ GetAdvice
SpecAdvice == InitAdvice /\ [][NextAdvice]_vars

\* app/sat.compute_indices applied to every pixel array of the bounded sets.
InitIdx ==
    /\ IdxInit
    /\ irr = IrrIdle /\ req = ReqIdle /\ openweather_key = TRUE
    /\ FieldInit /\ AdviceOff
    /\ SelOff /\ GeomOff /\ WxOff /\ ConcOff /\ SchedOff
NextIdx == ComputeIndices
SpecIdx == InitIdx /\ [][NextIdx]_vars


-----------------------------------------------------------------------------
(* C1, C2, C3, C9: get_recommendation (SpecRec) *)

FieldExists(field_id) == \E i \in 1..Len(fields) : fields[i].id = field_id

\* The forecast or the soil-moisture source failed: a request error or a
\* time-out, or an error status.
ForecastFailed == ~IsNone(req.forecast) /\ Val(req.forecast).kind \in {"error", "status"}
SoilSourceFailed == ~IsNone(req.soil_resp) /\ Val(req.soil_resp).kind \in {"error", "status"}

\* C1: for an existing field get_recommendation ends in a Recommendation or in
\* processing(eta_minutes); processing exactly when no manual soil moisture was
\* given and the satellite source yielded none; a manual value (0 included) is
\* the one used and the satellite source is then not consulted.
C1_TwoOutcomes ==
    (req.pc = "done" /\ FieldExists(req.field_id)) =>
        /\ req.out.kind \in {"recommendation", "processing"}
        /\ (req.out.kind = "processing") <=> (IsNone(req.manual) /\ IsNone(req.sm))
        /\ ~IsNone(req.manual) =>
              /\ ~req.sat_called
              /\ req.out.kind = "recommendation"
              /\ req.out.inputs.soil_moisture_pct = req.manual

\* C2: a transient I/O error of the forecast or soil-moisture source is
\* surfaced as an error outcome, never as a default value or as a
\* no-data / processing result.
C2_TransientErrorSurfaced ==
    (req.pc = "done" /\ (ForecastFailed \/ SoilSourceFailed)) => req.out.kind = "error"

\* C3: when the forecast source is unreachable (request error, error status,
\* missing API key) or returns no usable steps, the weather estimate falls back
\* to 30 C and the request completes instead of failing.
C3_WeatherFallback ==
    (/\ req.pc = "done"
     /\ FieldExists(req.field_id)
     /\ \/ ~openweather_key
        \/ ForecastFailed
        \/ /\ ~IsNone(req.forecast)
           /\ Val(req.forecast).kind = "ok"
           /\ Val(req.forecast).list \in {None, Some(<<>>)})
    => /\ req.out.kind # "error"
       /\ ~IsNone(req.wx)
       /\ Val(req.wx).temp_c = <<30, 1>>

\* The recommendation formula on unrounded intermediates: the mean temperature
\* of the first steps (30 without steps), the rainfall sum, et0 and the target.
UnroundedRecommendation(crop, list, sm) ==
    LET steps  == SubSeq(list, 1, Min(Len(list), 8))
        mean   == IF steps = <<>> THEN <<30, 1>>
                  ELSE RatDiv(RatSum([i \in 1..Len(steps) |-> steps[i].temp]),
                              Int2Rat(Len(steps)))
        rain   == RatSum([i \in 1..Len(steps) |->
                            IF IsNone(steps[i].rain) THEN Zero ELSE Val(steps[i].rain)])
        et0    == RatMul(RatMax(Zero, RatMul(<<23, 10000>>, RatAdd(mean, <<178, 10>>))),
                         <<24, 1>>)
        target == RatMax(Zero, RatSub(RatMul(CropKc(crop), et0), rain))
    IN  SoilAdjust(target, sm)

\* C9: rounding to one decimal happens only at the boundary: the returned
\* recommendation is the one-decimal rounding of the formula evaluated on
\* unrounded mean temperature, rainfall sum, et0 and target.
C9_RoundedOnlyAtBoundary ==
    (req.pc = "done" /\ req.out.kind = "recommendation") =>
        LET body == Val(req.forecast)
            list == IF IsNone(body.list) THEN <<>> ELSE Val(body.list)
        IN  req.out.recommendation_mm =
                Round1(UnroundedRecommendation(req.crop, list, req.sm))

-----------------------------------------------------------------------------
(* C4: field creation (SpecField) *)

\* A malformed boundary: no geometry, a type other than Polygon, or an outer
\* ring with fewer than 3 vertices.
Malformed(geometry) ==
    \/ IsNone(geometry)
    \/ Val(geometry).type # Some("Polygon")
    \/ Val(geometry).coordinates \in {None, Some(<<>>)}
    \/ Len(Val(Val(geometry).coordinates)[1]) < 3

\* C4: a malformed boundary is rejected with a validation error before
\* close_ring / centroid_and_area run and before any store write or remote call,
\* and the field store is unchanged.
C4_MalformedRejected ==
    [][(field_call'.pc = "done" /\ Malformed(field_call'.geometry)) =>
          /\ field_call'.status \in {400, 422}
          /\ ~field_call'.close_ring_ran
          /\ ~field_call'.measured
          /\ field_call'.db_calls = 0
          /\ fields' = fields
          /\ pg_fields' = pg_fields]_vars


-----------------------------------------------------------------------------
(* C6, C7, C8: get_advice (SpecAdvice) *)

AdviceGiven == advice.pc = "done" /\ advice.status = 200

\* The tier a message belongs to, by its English template.
TierOf(message) ==
    LET first == message.en[1].lit
    IN  IF first = "Conditions are normal. Monitor the next forecast." THEN "Normal"
        ELSE IF first = "Field is drying (deficit ~ " THEN "Drying"
        ELSE IF first = "Deficit high (~ " THEN "Critical"
        ELSE "Unknown"

\* The text holds the value x written with one decimal.
Shows(text, x) ==
    \E i \in 1..Len(text) : text[i].num = Some(Rat(RoundHalfEven(10 * x[1], x[2]), 10))

ShowsNoNumber(text) == \A i \in 1..Len(text) : IsNone(text[i].num)

\* C6: net_deficit = max(0, et0 * kc(crop) * days_since_irrigation - rain) with
\* kc(crop) looked up in the crop coefficient table for the field's crop.
C6_DeficitUsesCropKc ==
    AdviceGiven =>
        LET body == Val(advice.body)
            kc   == CropKc(Some(Val(advice.rec).crop))
            due  == RatSub(RatMul(RatMul(body.et0, kc),
                                  Int2Rat(body.since_last_irrigation_days)),
                           body.rain)
        IN  body.net_deficit = RatMax(Zero, due)

\* The tier of a deficit by the thresholds of the contract.
ContractTier(net) ==
    IF net[1] < 10 * net[2] THEN "Normal"
    ELSE IF net[1] < 25 * net[2] THEN "Drying"
    ELSE "Critical"

\* C7 as stated: every deficit gets exactly one tier (Normal < 10, Drying < 25,
\* Critical otherwise) and for every tier the message of each of the two
\* locales contains the deficit rounded to one decimal.
C7_EveryTierShowsDeficit ==
    AdviceGiven =>
        LET body == Val(advice.body)
        IN  /\ Len(body.messages) = 1
            /\ TierOf(body.messages[1]) = ContractTier(body.net_deficit)
            /\ Shows(body.messages[1].en, body.net_deficit)
            /\ Shows(body.messages[1].ur, body.net_deficit)

\* C7 amended: every deficit gets exactly one tier (Normal < 10, Drying < 25,
\* Critical otherwise); the Drying and Critical messages contain the deficit
\* rounded to one decimal in both locales, the Normal message contains no number.
C7_TiersAndShownDeficit ==
    AdviceGiven =>
        LET body == Val(advice.body)
            m    == body.messages[1]
        IN  /\ Len(body.messages) = 1
            /\ TierOf(m) = ContractTier(body.net_deficit)
            /\ TierOf(m) \in {"Drying", "Critical"} =>
                  Shows(m.en, body.net_deficit) /\ Shows(m.ur, body.net_deficit)
            /\ TierOf(m) = "Normal" => ShowsNoNumber(m.en) /\ ShowsNoNumber(m.ur)

\* C7 witness: a deficit just under 25 mm, reported as drying with its value.
C7_Witness ==
    /\ AdviceGiven
    /\ Val(advice.body).since_last_irrigation_days = 8
    /\ TierOf(Val(advice.body).messages[1]) = "Drying"
    /\ Shows(Val(advice.body).messages[1].ur, Val(advice.body).net_deficit)

\* C8: for an existing field get_advice answers with days_since_irrigation = 3
\* when the field has no last-irrigation timestamp, and with the number of
\* whole elapsed days, never negative (0 for a timestamp in the future), when
\* it has one.
C8_DaysSinceIrrigation ==
    (advice.pc = "done" /\ ~IsNone(advice.rec)) =>
        /\ advice.status = 200
        /\ LET ts   == Val(advice.rec).last_irrigation_ts
               days == Val(advice.body).since_last_irrigation_days
           IN  /\ IsNone(ts) => days = 3
               /\ ~IsNone(ts) =>
                     /\ days >= 0
                     /\ advice.now < Val(ts) => days = 0
                     /\ advice.now >= Val(ts) =>
                           /\ days * 86400 <= advice.now - Val(ts)
                           /\ advice.now - Val(ts) < (days + 1) * 86400

-----------------------------------------------------------------------------
(* C10: compute_indices (SpecIdx) *)

BadClasses == {3, 8, 9, 10}

\* The pixels that count for an index: not in a bad class, both bands present.
ValidFor(pixels, band) ==
    {i \in 1..Len(pixels) :
        /\ pixels[i].scl \notin BadClasses
        /\ ~IsNone(pixels[i].nir)
        /\ ~IsNone(pixels[i][band])}

RECURSIVE SumOver(_, _, _)
SumOver(pixels, band, S) ==
    IF S = {} THEN 0
    ELSE LET i == CHOOSE j \in S : TRUE
         IN  NormDiff(Val(pixels[i].nir), Val(pixels[i][band]))
               + SumOver(pixels, band, S \ {i})

\* The mean of the contract: over the valid pixels only, None without any.
ContractMean(pixels, band) ==
    LET S == ValidFor(pixels, band)
    IN  IF S = {} THEN None
        ELSE Some(RoundHalfEven(SumOver(pixels, band, S), Cardinality(S)))

BandValues == {None, Some(0), Some(3)}

\* C10: an index is None exactly when no pixel is valid for it (both are None
\* when every pixel is in a bad class), otherwise it is the mean over the
\* non-masked pixels, and the band values of masked pixels never change it.
C10_NoneIffNoValidPixel ==
    idx.pc = "done" =>
        LET px  == idx.pixels
            out == Val(idx.out)
        IN  /\ IsNone(out.ndvi_mean) <=> ValidFor(px, "red") = {}
            /\ IsNone(out.ndwi_mean) <=> ValidFor(px, "swir") = {}
            /\ (\A i \in 1..Len(px) : px[i].scl \in BadClasses) =>
                   IsNone(out.ndvi_mean) /\ IsNone(out.ndwi_mean)
            /\ out.ndvi_mean = ContractMean(px, "red")
            /\ out.ndwi_mean = ContractMean(px, "swir")
            /\ \A i \in 1..Len(px) :
                  px[i].scl \in BadClasses =>
                     \A r \in BandValues, n \in BandValues, s \in BandValues :
                        compute_indices(idx.item,
                            [px EXCEPT ![i] = [red |-> r, nir |-> n, swir |-> s,
                                               scl |-> px[i].scl]]) = out

\* C10 witness: an AOI of several pixels, all in bad classes, gives None twice.
C10_Witness ==
    /\ idx.pc = "done"
    /\ Len(idx.pixels) >= 2
    /\ \A i \in 1..Len(idx.pixels) : idx.pixels[i].scl \in BadClasses
    /\ \E i \in 1..Len(idx.pixels) : idx.pixels[i].scl = 10
    /\ IsNone(Val(idx.out).ndvi_mean)
    /\ IsNone(Val(idx.out).ndwi_mean)


-----------------------------------------------------------------------------
(* app/sat.select_item, lines 35-48 *)

\* A time is <<day, hour>>, a date is a day number.
DateOf(t) == t[1]

\* t is not later than u.
NotLater(t, u) == t[1] < u[1] \/ (t[1] = u[1] /\ t[2] <= u[2])

\* A variant of CloudFilter that also lets cloud cover equal to the limit pass.
CloudFilterLe(cloud_cover, max_cloud_pct) == cloud_cover <= max_cloud_pct

\* query={"eo:cloud_cover": {"lt": max_cloud_pct}}, line 43.
CloudFilter(cloud_cover, max_cloud_pct) == cloud_cover < max_cloud_pct

\* datetime="start/end" with two dates, line 42: from the first hour of start
\* to the last hour of end.
DatetimeFilter(t, start, end) == start <= t[1] /\ t[1] <= end

\* client.search(...), lines 39-46, as the catalog evaluates it: the items of
\* the collection that pass intersects, datetime and query.
search(catalog, aoi, start, end, max_cloud_pct) ==
    {it \in catalog :
        /\ aoi \in it.covers
        /\ DatetimeFilter(it.datetime, start, end)
        /\ CloudFilter(it.cloud_cover, max_cloud_pct)}

\* sort by properties.datetime, direction desc (line 44): the items that may
\* come first in the result.
FirstOfSorted(found) == {it \in found : \A o \in found : NotLater(o.datetime, it.datetime)}

CatalogItem(id, day, hour, cloud, covers) ==
    [id |-> id, datetime |-> <<day, hour>>, cloud_cover |-> cloud,
     covers |-> covers]

CatalogItems ==
    {CatalogItem("a", 40, 10, 39, {1}),     CatalogItem("b", 40, 10, 20, {1, 2}),
     CatalogItem("c", 40, 5, 40, {1}),      CatalogItem("d", 10, 0, 10, {1, 2}),
     CatalogItem("e", 9, 23, 5, {1, 2}),    CatalogItem("f", 40, 12, 0, {2}),
     CatalogItem("g", 41, 0, 0, {1, 2}),    CatalogItem("h", 39, 7, 41, {1})}

MaxCatalog == 3

Catalogs == {c \in SUBSET CatalogItems : Cardinality(c) <= MaxCatalog}

\* A call of select_item about to be made: the catalog as it is, whether it
\* answers, today's date (utcnow, line 37) and the arguments.
SelInit ==
    \E c \in Catalogs, up \in BOOLEAN, aoi \in {1, 2},
       days_back \in {0, 1, 30}, max_cloud_pct \in {10, 40} :
        sel = [pc |-> "call", catalog |-> c, catalog_up |-> up, today |-> 40,
               aoi |-> aoi, days_back |-> days_back,
               max_cloud_pct |-> max_cloud_pct, out |-> [kind |-> "none"]]

\* select_item, lines 35-48.  An error of the catalog request propagates.
SelectItem ==
    /\ sel.pc = "call"
    /\ LET end   == sel.today
           start == end - sel.days_back
           items == search(sel.catalog, sel.aoi, start, end, sel.max_cloud_pct)
       IN  \/ /\ ~sel.catalog_up
              /\ sel' = [sel EXCEPT !.pc = "done", !.out = [kind |-> "raised"]]
           \/ /\ sel.catalog_up
              /\ items = {}
              /\ sel' = [sel EXCEPT !.pc = "done",
                                    !.out = [kind |-> "returned", item |-> None]]
           \/ /\ sel.catalog_up
              /\ \E it \in FirstOfSorted(items) :
                    sel' = [sel EXCEPT !.pc = "done",
                                       !.out = [kind |-> "returned", item |-> Some(it)]]
    /\ UNCHANGED <<irrVars, recVars, fieldVars, adviceVars, idxVars,
                   geomVars, wxVars, concVars, schedVars>>

RecOff == req = ReqIdle /\ openweather_key = TRUE

InitSel ==
    /\ SelInit
    /\ IrrOff /\ RecOff /\ FieldInit /\ AdviceOff /\ IdxOff
    /\ GeomOff /\ WxOff /\ ConcOff /\ SchedOff
NextSel == SelectItem
SpecSel == InitSel /\ [][NextSel]_vars

\* The items of the contract: they intersect the polygon, were acquired in
\* [today - days_back, today] and have cloud cover strictly under the limit.
Eligible ==
    {it \in sel.catalog :
        /\ sel.aoi \in it.covers
        /\ sel.today - sel.days_back <= DateOf(it.datetime)
        /\ DateOf(it.datetime) <= sel.today
        /\ it.cloud_cover < sel.max_cloud_pct}

\* C11: when the catalog answers, select_item returns an eligible item with
\* the most recent acquisition date among the eligible ones, returns None (no
\* error) exactly when no item is eligible, and never returns an item whose
\* cloud cover equals max_cloud_pct.
C11_MostRecentEligible ==
    (sel.pc = "done" /\ sel.catalog_up) =>
        /\ sel.out.kind = "returned"
        /\ IsNone(sel.out.item) <=> Eligible = {}
        /\ ~IsNone(sel.out.item) =>
              /\ Val(sel.out.item) \in Eligible
              /\ \A o \in Eligible :
                    DateOf(o.datetime) <= DateOf(Val(sel.out.item).datetime)
              /\ Val(sel.out.item).cloud_cover # sel.max_cloud_pct

\* C11 witness: the newest item of the catalog has cloud cover equal to the
\* limit, and an older eligible item is returned instead.
C11_Witness ==
    /\ sel.pc = "done" /\ sel.catalog_up
    /\ ~IsNone(sel.out.item)
    /\ \E o \in sel.catalog :
          /\ o.cloud_cover = sel.max_cloud_pct
          /\ sel.aoi \in o.covers
          /\ DateOf(o.datetime) = sel.today
    /\ DateOf(Val(sel.out.item).datetime) < sel.today


-----------------------------------------------------------------------------
(* _close_ring and _centroid_and_area applied to vertex lists *)

MaxVertices == 5

\* The positions rings are drawn from: the corners and the centre of a square.
GridPoints == {Pt(0, 0), Pt(2, 0), Pt(2, 2), Pt(0, 2), Pt(1, 1)}

VertexLists == UNION {[1..n -> GridPoints] : n \in 0..MaxVertices}

IsClosed(v) == v # <<>> /\ v[1] = v[Len(v)]

\* A call about to be made: the function and its argument.  _centroid_and_area
\* is called on closed rings (create_field, lines 161-163).
GeomInit ==
    \E v \in VertexLists,
       fn \in {"_close_ring", "frontend_close_ring", "_centroid_and_area"} :
        /\ fn = "_centroid_and_area" => IsClosed(v)
        /\ geom = [pc |-> "call", fn |-> fn, v |-> v, out |-> None]

CloseRing ==
    /\ geom.pc = "call" /\ geom.fn = "_close_ring"
    /\ geom' = [geom EXCEPT !.pc = "done", !.out = Some(_close_ring(geom.v))]
    /\ UNCHANGED <<irrVars, recVars, fieldVars, adviceVars, idxVars,
                   selVars, wxVars, concVars, schedVars>>

FrontendCloseRing ==
    /\ geom.pc = "call" /\ geom.fn = "frontend_close_ring"
    /\ geom' = [geom EXCEPT !.pc = "done", !.out = frontend_close_ring(geom.v)]
    /\ UNCHANGED <<irrVars, recVars, fieldVars, adviceVars, idxVars,
                   selVars, wxVars, concVars, schedVars>>

CentroidAndArea ==
    /\ geom.pc = "call" /\ geom.fn = "_centroid_and_area"
    /\ geom' = [geom EXCEPT !.pc = "done", !.out = Some(_centroid_and_area(geom.v))]
    /\ UNCHANGED <<irrVars, recVars, fieldVars, adviceVars, idxVars,
                   selVars, wxVars, concVars, schedVars>>

InitGeom ==
    /\ GeomInit
    /\ IrrOff /\ RecOff /\ FieldInit /\ AdviceOff /\ IdxOff
    /\ SelOff /\ WxOff /\ ConcOff /\ SchedOff
NextGeom == CloseRing \/ FrontendCloseRing \/ CentroidAndArea
SpecGeom == InitGeom /\ [][NextGeom]_vars

\* C12: closing a ring returns an already-closed ring unchanged and an open
\* ring with one copy of its first vertex appended after the same vertices in
\* the same order, and closing the result again changes nothing; this holds
\* for _close_ring on every vertex list and for the closing step of the
\* frontend service on every vertex list it does not reject.
C12_CloseRingIdempotent ==
    LET v == geom.v
    IN  /\ (geom.pc = "done" /\ geom.fn = "_close_ring") =>
              LET out == Val(geom.out)
              IN  /\ IsClosed(v) => out = v
                  /\ (v # <<>> /\ ~IsClosed(v)) =>
                        /\ Len(out) = Len(v) + 1
                        /\ SubSeq(out, 1, Len(v)) = v
                        /\ out[Len(out)] = v[1]
                  /\ v = <<>> => out = <<>>
                  /\ _close_ring(out) = out
        /\ (geom.pc = "done" /\ geom.fn = "frontend_close_ring") =>
              /\ IsNone(geom.out) <=> v = <<>>
              /\ v # <<>> =>
                    LET out == Val(geom.out)
                    IN  /\ IsClosed(v) => out = v
                        /\ ~IsClosed(v) =>
                              /\ Len(out) = Len(v) + 1
                              /\ SubSeq(out, 1, Len(v)) = v
                              /\ out[Len(out)] = v[1]
                        /\ frontend_close_ring(out) = Some(out)

\* C12 witness: an open ring of three vertices was closed to four positions.
C12_Witness ==
    /\ geom.pc = "done" /\ geom.fn = "_close_ring"
    /\ Len(geom.v) = 3 /\ geom.v[1] # geom.v[3]
    /\ Len(Val(geom.out)) = 4 /\ Val(geom.out)[4] = geom.v[1]

\* The signed shoelace accumulator of a ring, over its positions as given.
Shoelace(v) ==
    RatSum([i \in 1..(Len(v) - 1) |->
               RatSub(RatMul(v[i][1], v[i + 1][2]), RatMul(v[i + 1][1], v[i][2]))])

\* The unweighted mean of coordinate k over the positions of a ring.
MeanOf(v, k) == RatDiv(RatSum([i \in 1..Len(v) |-> v[i][k]]), Int2Rat(Len(v)))

\* C13: for a closed ring whose signed shoelace accumulator is zero,
\* _centroid_and_area returns area 0 in hectares and in acres and, as the
\* centroid, the projection origin, which is the unweighted mean of the
\* ring's positions (the point itself when all are identical); it raises no
\* division error.
C13_DegenerateRing ==
    (geom.pc = "done" /\ geom.fn = "_centroid_and_area" /\ Shoelace(geom.v) = Zero) =>
        /\ ~IsNone(geom.out)
        /\ Val(geom.out).area_ha.deg2 = Zero
        /\ Val(geom.out).area_ac.deg2 = Zero
        /\ Val(geom.out).centroid_lon = MeanOf(geom.v, 1)
        /\ Val(geom.out).centroid_lat = MeanOf(geom.v, 2)
        /\ (\A i \in 1..Len(geom.v) : geom.v[i] = geom.v[1]) =>
              /\ Val(geom.out).centroid_lon = geom.v[1][1]
              /\ Val(geom.out).centroid_lat = geom.v[1][2]

\* C13 witness: a ring of three distinct collinear vertices, closed.
C13_Witness ==
    /\ geom.pc = "done" /\ geom.fn = "_centroid_and_area"
    /\ geom.v = <<Pt(0, 0), Pt(1, 1), Pt(2, 2), Pt(0, 0)>>
    /\ Val(geom.out).area_ha.deg2 = Zero
    /\ Val(geom.out).centroid_lat = <<3, 4>>


-----------------------------------------------------------------------------
(* get_recommendation: requests served concurrently on one event loop *)

MaxRequests == 2

\* Request i asks for field i or for a field that does not exist.
ConcFieldIds(i) == {i, 4}
ConcManual == {None, Some(Zero)}
ConcForecasts ==
    {[kind |-> "error", list |-> None],
     [kind |-> "ok", list |-> Some(<<>>)],
     [kind |-> "ok", list |-> Some(<<[temp |-> <<2013, 100>>, rain |-> None]>>)],
     [kind |-> "ok", list |-> Some(<<[temp |-> <<3146, 100>>, rain |-> Some(<<13, 50>>)]>>)]}
ConcSoils ==
    {[kind |-> "status", value |-> None],
     [kind |-> "ok", value |-> Some(<<350, 1>>)],
     [kind |-> "ok", value |-> Some(<<450, 1>>)]}

ConcInit ==
    /\ reqs = [i \in 1..MaxRequests |-> ReqIdle]
    /\ openweather_key \in BOOLEAN
    /\ fields = StoredFields
    /\ req = ReqIdle /\ pg_fields = <<>> /\ field_call = FieldCallIdle

\* A variant of resume in which the weather a call fetched is also seen by the
\* calls that are waiting for their soil-moisture value.
resume_shared_weather(rs, i, r) ==
    [j \in 1..Len(rs) |->
        IF j = i THEN r
        ELSE IF rs[j].pc = "soil" /\ ~IsNone(r.wx) THEN [rs[j] EXCEPT !.wx = r.wx]
        ELSE rs[j]]

\* A call of get_recommendation keeps what it has read in its own local
\* variables (f, crop, wx, sm; lines 206-218): a step of call i replaces the
\* state of call i only.
resume(rs, i, r) == [rs EXCEPT ![i] = r]

\* Lines 200-211 of call i, up to its first await.
ConcBegin(i) ==
    /\ reqs[i].pc = "idle"
    /\ \E field_id \in ConcFieldIds(i), manual \in ConcManual :
          reqs' = resume(reqs, i,
                     begin_recommendation(reqs[i], fields, openweather_key,
                                          field_id, manual))
    /\ UNCHANGED <<req, openweather_key, fieldVars, irrVars, adviceVars, idxVars,
                   selVars, geomVars, wxVars, schedVars>>

\* Call i resumes with the answer of the forecast service.
ConcWeatherReturns(i) ==
    /\ reqs[i].pc = "weather"
    /\ \E resp \in ConcForecasts :
          reqs' = resume(reqs, i, weather_returns(reqs[i], openweather_key, resp))
    /\ UNCHANGED <<req, openweather_key, fieldVars, irrVars, adviceVars, idxVars,
                   selVars, geomVars, wxVars, schedVars>>

\* Call i resumes with the answer of the soil-moisture source.
ConcSoilReturns(i) ==
    /\ reqs[i].pc = "soil"
    /\ \E resp \in ConcSoils : reqs' = resume(reqs, i, soil_returns(reqs[i], resp))
    /\ UNCHANGED <<req, openweather_key, fieldVars, irrVars, adviceVars, idxVars,
                   selVars, geomVars, wxVars, schedVars>>

ConcBeginSome == \E i \in 1..MaxRequests : ConcBegin(i)
ConcWeatherReturnsSome == \E i \in 1..MaxRequests : ConcWeatherReturns(i)
ConcSoilReturnsSome == \E i \in 1..MaxRequests : ConcSoilReturns(i)

InitConc ==
    /\ ConcInit
    /\ IrrOff /\ AdviceOff /\ IdxOff
    /\ SelOff /\ GeomOff /\ WxOff /\ SchedOff
NextConc == ConcBeginSome \/ ConcWeatherReturnsSome \/ ConcSoilReturnsSome
SpecConc == InitConc /\ [][NextConc]_vars

\* The response of a request served alone: for the field record, the manual
\* value and the answers of the two collaborators (None when not asked).
Alone(field_id, manual, forecast, soil_resp) ==
    LET rows == SelectSeq(StoredFields, LAMBDA f : f.id = field_id)
    IN  IF rows = <<>> THEN HttpError(404)
        ELSE IF ~openweather_key THEN HttpError(500)
        ELSE LET w == fetch_weather_et0(openweather_key, Val(forecast))
             IN  IF w.raised THEN HttpError(500)
                 ELSE Respond(rows[1].crop, Val(w.wx),
                              IF ~IsNone(manual) THEN manual
                              ELSE fetch_satellite_soil_moisture(Val(soil_resp)))

\* C14: under every interleaving of the steps of concurrent requests, the
\* response of each request is the one it gives when served alone with the
\* same field record and the same collaborator answers, and no step of a
\* request changes the field store, the API key or the state of another request.
C14_NoInterference ==
    /\ \A i \in 1..Len(reqs) :
          reqs[i].pc = "done" =>
              reqs[i].out = Alone(reqs[i].field_id, reqs[i].manual,
                                  reqs[i].forecast, reqs[i].soil_resp)
    /\ fields = StoredFields

\* C14 witness: the request for field 2 was served from start to end, with
\* another forecast, while the request for field 1 was waiting for its
\* soil-moisture value.
C14_Witness ==
    /\ Len(reqs) >= 2
    /\ reqs[1].pc = "soil" /\ reqs[1].field_id = 1
    /\ reqs[2].pc = "done" /\ reqs[2].field_id = 2
    /\ reqs[2].sat_called
    /\ reqs[2].out.kind = "recommendation"
    /\ reqs[1].wx # reqs[2].wx


-----------------------------------------------------------------------------
(* fetch_weather_et0 applied to forecast bodies of up to MaxForecastLen steps *)

MaxForecastLen == 9

\* Forecast steps: "main.temp" and "rain.3h", the latter possibly missing.
WxSteps ==
    {[temp |-> <<1934, 100>>, rain |-> None],
     [temp |-> <<3146, 100>>, rain |-> Some(<<13, 50>>)],
     [temp |-> <<-20, 1>>,    rain |-> Some(<<119, 100>>)]}

LongForecasts == UNION {[1..n -> WxSteps] : n \in 1..MaxForecastLen}

\* A call of fetch_weather_et0 about to be made, with the body the forecast
\* service will answer.
WxInit ==
    \E l \in LongForecasts :
        wx_call = [pc |-> "call", list |-> l, out |-> None]

FetchWeather ==
    /\ wx_call.pc = "call"
    /\ wx_call' = [wx_call EXCEPT
                      !.pc = "done",
                      !.out = fetch_weather_et0(TRUE, [kind |-> "ok",
                                                       list |-> Some(wx_call.list)]).wx]
    /\ UNCHANGED <<irrVars, recVars, fieldVars, adviceVars, idxVars,
                   selVars, geomVars, concVars, schedVars>>

InitWx ==
    /\ WxInit
    /\ IrrOff /\ RecOff /\ FieldInit /\ AdviceOff /\ IdxOff
    /\ SelOff /\ GeomOff /\ ConcOff /\ SchedOff
NextWx == FetchWeather
SpecWx == InitWx /\ [][NextWx]_vars

\* The estimate of the contract over the first 8 steps of a forecast.
ContractWindow(list) == SubSeq(list, 1, IF Len(list) < 8 THEN Len(list) ELSE 8)

ContractMeanTemp(list) ==
    LET w == ContractWindow(list)
    IN  RatDiv(RatSum([i \in 1..Len(w) |-> w[i].temp]), Int2Rat(Len(w)))

ContractRain(list) ==
    LET w == ContractWindow(list)
    IN  RatSum([i \in 1..Len(w) |-> IF IsNone(w[i].rain) THEN Zero ELSE Val(w[i].rain)])

ContractEt0(list) ==
    RatMul(RatMax(Zero, RatMul(<<23, 10000>>, RatAdd(ContractMeanTemp(list), <<178, 10>>))),
           Int2Rat(24))

\* C15: the weather estimate is that of the first 8 forecast steps (all when
\* there are fewer): temperature their arithmetic mean, rainfall the sum of
\* their rain with a missing record counted as 0, et0 = max(0, 0.0023 *
\* (mean_temp + 17.8)) * 24, each reported to one decimal; et0 is never negative.
C15_FirstEightSteps ==
    wx_call.pc = "done" =>
        LET out == Val(wx_call.out)
        IN  /\ out.temp_c = Round1(ContractMeanTemp(wx_call.list))
            /\ out.rainfall_forecast_mm = Round1(ContractRain(wx_call.list))
            /\ out.et0_mm = Round1(ContractEt0(wx_call.list))
            /\ RatGe(out.et0_mm, Zero)

\* The estimate depends on the first 8 steps only.
C15_LaterStepsIgnored ==
    wx_call.pc = "done" =>
        Val(wx_call.out) = WeatherSnapshot(ContractWindow(wx_call.list))


-----------------------------------------------------------------------------
(* The field stores under creations and attribute patches *)

MaxStored == 2

StoreBodies ==
    {[raw |-> FALSE, geometry |-> Some(Polygon(Some(<<r>>))), crop |-> Some(Str_Maize)] :
        r \in {Ring_two, Ring_tri_open, Ring_sq_cw, Ring_line}}

\* The payloads of app/main.create_field: the centroid and, as polygon_geojson,
\* the boundary, both as the client sends them.
StorePayloads ==
    [name : {<<"F">>}, crop : {Str_wheat}, last_irrigation_ts : {None},
     centroid_lat : {Int2Rat(1)}, centroid_lon : {Int2Rat(1), <<2, 3>>},
     polygon_geojson : {None, Some(Ring_sq_cw), Some(Ring_tri)}]

\* backend/app/main.update_field, lines 134-158: sets the allowed attributes
\* that are in the payload on the row with this id, and nothing else.
update_field(field_id, payload) ==
    IF IsNone(payload.crop)
    THEN /\ field_call' = [pc |-> "done", svc |-> "update_field", updated |-> FALSE]
         /\ UNCHANGED fields
    ELSE /\ fields' = [i \in 1..Len(fields) |->
                          IF fields[i].id = field_id
                          THEN [fields[i] EXCEPT !.crop = payload.crop]
                          ELSE fields[i]]
         /\ field_call' = [pc |-> "done", svc |-> "update_field", updated |-> TRUE]

StoreInit ==
    /\ FieldInit
    /\ DB_URL = "sqlite" /\ app_fields = <<>> /\ advice = AdviceIdle

StoreCreateField ==
    /\ Len(fields) < MaxStored
    /\ \E body \in StoreBodies : create_field(body)
    /\ UNCHANGED <<pg_fields, irrVars, recVars, adviceVars, idxVars,
                   selVars, geomVars, wxVars, concVars, schedVars>>

StoreUpdateField ==
    /\ \E field_id \in 1..(MaxStored + 1),
          payload \in {[crop |-> None], [crop |-> Some(Str_rice)]} :
          update_field(field_id, payload)
    /\ UNCHANGED <<pg_fields, irrVars, recVars, adviceVars, idxVars,
                   selVars, geomVars, wxVars, concVars, schedVars>>

StoreAppCreateField ==
    /\ Len(app_fields) < MaxStored
    /\ \E payload \in StorePayloads : app_create_field(payload)
    /\ UNCHANGED <<DB_URL, advice, irrVars, recVars, fieldVars, idxVars,
                   selVars, geomVars, wxVars, concVars, schedVars>>

InitStore ==
    /\ StoreInit
    /\ IrrOff /\ RecOff /\ IdxOff
    /\ SelOff /\ GeomOff /\ WxOff /\ ConcOff /\ SchedOff
NextStore == StoreCreateField \/ StoreUpdateField \/ StoreAppCreateField
SpecStore == InitStore /\ [][NextStore]_vars

\* The stored centroid (and area, where one is stored) of a row are those of
\* the boundary stored in the same row.
MeasuredFromOwnBoundary(row) ==
    LET m == _centroid_and_area(row.geometry)
    IN  /\ row.geometry = _close_ring(row.geometry)
        /\ row.centroid_lat = m.centroid_lat /\ row.centroid_lon = m.centroid_lon
        /\ row.area_ha = m.area_ha /\ row.area_ac = m.area_ac

CentroidOfOwnBoundary(row) ==
    ~IsNone(row.polygon_geojson) =>
        LET m == _centroid_and_area(_close_ring(Val(row.polygon_geojson)))
        IN  row.centroid_lat = m.centroid_lat /\ row.centroid_lon = m.centroid_lon

\* C16 for the store of routes_irrigation.
C16_RoutesStoreConsistent ==
    \A i \in 1..Len(fields) : MeasuredFromOwnBoundary(fields[i])

\* C16: after any sequence of field creations and attribute patches, the
\* centroid and the area stored for every field are those that
\* _centroid_and_area yields for the closed boundary stored with that field.
C16_StoredMeasuresMatchBoundary ==
    /\ \A i \in 1..Len(fields) : MeasuredFromOwnBoundary(fields[i])
    /\ \A i \in 1..Len(app_fields) : CentroidOfOwnBoundary(app_fields[i])


-----------------------------------------------------------------------------
(* Schedules: save_schedule of both services and backend/app get_schedule *)

MaxSchedules == 3

ScheduleFieldIds == {1, 2}

\* Event lists a client saves; an event is abbreviated to its date.
EventLists == {<<"d1">>, <<"d1", "d8">>}

\* backend/app save_schedule, lines 213-233: body is the dumped payload, the
\* object {"events": [...]}; created_at is set by the database, later for a
\* later insert.
save_schedule(field_id, events) ==
    /\ schedules' = Append(schedules,
           [field_id |-> field_id, body |-> [json |-> "object", events |-> Some(events)],
            created_at |-> Len(schedules) + 1])
    /\ sched_call' = [pc |-> "done", fn |-> "save_schedule", field_id |-> field_id,
                      status |-> 200, events |-> events]

\* frontend/backend save_schedule, lines 100-113: body is the list of events
\* itself (json.dumps(events)), the empty list when the payload has none.
frontend_save_schedule(field_id, payload) ==
    LET events == IF IsNone(payload.events) THEN <<>> ELSE Val(payload.events)
    IN  /\ schedules' = Append(schedules,
               [field_id |-> field_id, body |-> [json |-> "array", items |-> events],
                created_at |-> Len(schedules) + 1])
        /\ sched_call' = [pc |-> "done", fn |-> "frontend_save_schedule",
                          field_id |-> field_id, status |-> 200, events |-> events]

\* The row of line 240-246: WHERE field_id = :fid ORDER BY created_at DESC LIMIT 1.
LatestSchedule(field_id) ==
    LET rows == SelectSeq(schedules, LAMBDA r : r.field_id = field_id)
    IN  IF rows = <<>> THEN None
        ELSE Some(CHOOSE r \in {rows[i] : i \in 1..Len(rows)} :
                    \A i \in 1..Len(rows) : rows[i].created_at <= r.created_at)

\* backend/app get_schedule, lines 235-259.  body.get of line 258 raises
\* AttributeError for a body that is a JSON array.
get_schedule(field_id) ==
    LET row == LatestSchedule(field_id)
    IN  /\ sched_call' =
              IF IsNone(row)
              THEN [pc |-> "done", fn |-> "get_schedule", field_id |-> field_id,
                    status |-> 200, events |-> <<>>]
              ELSE IF Val(row).body.json # "object"
              THEN [pc |-> "done", fn |-> "get_schedule", field_id |-> field_id,
                    status |-> 500, events |-> <<>>]
              ELSE [pc |-> "done", fn |-> "get_schedule", field_id |-> field_id,
                    status |-> 200,
                    events |-> IF IsNone(Val(row).body.events) THEN <<>>
                               ELSE Val(Val(row).body.events)]
        /\ UNCHANGED schedules

SchedInit ==
    /\ schedules = <<>>
    /\ sched_call = CallIdle

SaveSchedule ==
    /\ Len(schedules) < MaxSchedules
    /\ \E field_id \in ScheduleFieldIds, events \in EventLists :
          save_schedule(field_id, events)
    /\ UNCHANGED <<irrVars, recVars, fieldVars, adviceVars, idxVars,
                   selVars, geomVars, wxVars, concVars>>

FrontendSaveSchedule ==
    /\ Len(schedules) < MaxSchedules
    /\ \E field_id \in ScheduleFieldIds,
          payload \in {[events |-> None], [events |-> Some(<<"d1", "d8">>)]} :
          frontend_save_schedule(field_id, payload)
    /\ UNCHANGED <<irrVars, recVars, fieldVars, adviceVars, idxVars,
                   selVars, geomVars, wxVars, concVars>>

GetSchedule ==
    /\ \E field_id \in ScheduleFieldIds : get_schedule(field_id)
    /\ UNCHANGED <<irrVars, recVars, fieldVars, adviceVars, idxVars,
                   selVars, geomVars, wxVars, concVars>>

InitSched ==
    /\ SchedInit
    /\ IrrOff /\ RecOff /\ FieldInit /\ AdviceOff /\ IdxOff
    /\ SelOff /\ GeomOff /\ WxOff /\ ConcOff
NextSched == SaveSchedule \/ FrontendSaveSchedule \/ GetSchedule
SpecSched == InitSched /\ [][NextSched]_vars

\* The events of the schedule saved last for a field, in the order of the
\* save_schedule calls; the empty list when none was saved.
SavedEvents(row) ==
    IF row.body.json = "object" THEN Val(row.body.events) ELSE row.body.items

LastSavedEvents(field_id) ==
    LET rows == SelectSeq(schedules, LAMBDA r : r.field_id = field_id)
    IN  IF rows = <<>> THEN <<>> ELSE SavedEvents(rows[Len(rows)])

\* C17: after any sequence of save_schedule calls, get_schedule(f) returns
\* the events of the schedule saved last for field f, the empty list when
\* none was saved for f, whatever was saved for other fields.
C17_LatestScheduleReturned ==
    (sched_call.pc = "done" /\ sched_call.fn = "get_schedule") =>
        /\ sched_call.status = 200
        /\ sched_call.events = LastSavedEvents(sched_call.field_id)

\* C17 for schedules saved through backend/app only.
C17_BackendSavesReturned ==
    (/\ sched_call.pc = "done" /\ sched_call.fn = "get_schedule"
     /\ \A i \in 1..Len(schedules) : schedules[i].body.json = "object") =>
        /\ sched_call.status = 200
        /\ sched_call.events = LastSavedEvents(sched_call.field_id)


-----------------------------------------------------------------------------
(* C18: get_advice (SpecAdvice) *)

\* C18: the reported net_deficit_mm, the deficit rounded to one decimal, agrees
\* with the tier of the returned message: under 10 for Normal, from 10 to under
\* 25 for Drying, 25 or more for Critical.
C18_ReportedDeficitMatchesTier ==
    AdviceGiven =>
        LET body     == Val(advice.body)
            reported == body.net_deficit_mm
            tier     == TierOf(body.messages[1])
        IN  /\ tier \in {"Normal", "Drying", "Critical"}
            /\ tier = "Normal" => RatLt(reported, Int2Rat(10))
            /\ tier = "Drying" => RatGe(reported, Int2Rat(10)) /\ RatLt(reported, Int2Rat(25))
            /\ tier = "Critical" => RatGe(reported, Int2Rat(25))

\* C18 witness: nine days without irrigation, reported as 28.0 mm and Critical.
C18_Witness ==
    /\ AdviceGiven
    /\ Val(advice.body).since_last_irrigation_days = 9
    /\ TierOf(Val(advice.body).messages[1]) = "Critical"
    /\ Val(advice.body).net_deficit_mm = <<28, 1>>

=============================================================================
